---------------------------- MODULE Spec2Model ----------------------------
(***************************************************************************)
(* Model of the skill converter (convert_to_desktop_format.py) and of the  *)
(* ZIP creator (create_skill_zips.py).                                     *)
(*                                                                         *)
(* A Python str is a sequence of one-character strings.  The text          *)
(* functions of the converter are operators over such sequences, computed  *)
(* the way the code computes them; the two main() batch loops are state    *)
(* machines over a small file system.                                      *)
(***************************************************************************)
EXTENDS Naturals, Integers, Sequences, FiniteSets, TLC

---------------------------------------------------------------------------
(* Characters and the str methods the code uses.                           *)

NL == "\n"
DQ == "\""
SQ == "'"
BS == "\\"
SP == " "
\* The backquote character (the lexer accepts no backquote in a string).
BT == "backquote"

\* Python's None: not a str (no character is the four-letter atom).
None == <<"None">>

\* "not x" of Python for x a str or None.
Falsy(x) == x = None \/ x = <<>>

\* The whitespace characters of the model's alphabet (str.strip, \s).
IsWs(c) == c \in {SP, NL}

MinOf(S) == CHOOSE x \in S : \A y \in S : x <= y
MaxOf(S) == CHOOSE x \in S : \A y \in S : x >= y

\* s[a:] for a 1-based first index a.
From(s, a) == SubSeq(s, a, Len(s))

\* s[:n]
Take(s, n) == IF Len(s) <= n THEN s ELSE SubSeq(s, 1, n)

\* str.lstrip(), str.rstrip(), str.strip()
LStrip(s) ==
  IF \A i \in 1..Len(s) : IsWs(s[i]) THEN <<>>
  ELSE From(s, CHOOSE i \in 1..Len(s) :
                 ~IsWs(s[i]) /\ \A j \in 1..(i - 1) : IsWs(s[j]))

RStrip(s) ==
  IF \A i \in 1..Len(s) : IsWs(s[i]) THEN <<>>
  ELSE SubSeq(s, 1, CHOOSE i \in 1..Len(s) :
                      ~IsWs(s[i]) /\ \A j \in (i + 1)..Len(s) : IsWs(s[j]))

Strip(s) == LStrip(RStrip(s))

\* str.strip(chars)
StripChars(s, chars) ==
  IF \A i \in 1..Len(s) : s[i] \in chars THEN <<>>
  ELSE SubSeq(s,
              CHOOSE i \in 1..Len(s) :
                s[i] \notin chars /\ \A j \in 1..(i - 1) : s[j] \in chars,
              CHOOSE i \in 1..Len(s) :
                s[i] \notin chars /\ \A j \in (i + 1)..Len(s) : s[j] \in chars)

\* str.startswith(p)
StartsWith(s, p) == Len(s) >= Len(p) /\ \A k \in 1..Len(p) : s[k] = p[k]

\* Whether p occurs in s at index i.
OccursAt(s, p, i) ==
  /\ i >= 1
  /\ i + Len(p) - 1 <= Len(s)
  /\ \A k \in 1..Len(p) : s[i + k - 1] = p[k]

\* The least member of a set of indices, 0 for the empty set.
MinOrZero(S) == IF S = {} THEN 0 ELSE MinOf(S)
MaxOrZero(S) == IF S = {} THEN 0 ELSE MaxOf(S)

\* str.find(p, from): the first index >= from where p occurs, 0 when none.
Find(s, p, from) ==
  MinOrZero({i \in from..(Len(s) - Len(p) + 1) : OccursAt(s, p, i)})

\* str.split('\n'): the lines of s, always at least one.
SplitLines(s) ==
  LET P == {i \in 1..Len(s) : s[i] = NL}
      n == Cardinality(P)
      pos(k) == CHOOSE i \in P : Cardinality({j \in P : j <= i}) = k
      first(k) == IF k = 1 THEN 1 ELSE pos(k - 1) + 1
      last(k) == IF k = n + 1 THEN Len(s) ELSE pos(k) - 1
  IN  [k \in 1..(n + 1) |-> SubSeq(s, first(k), last(k))]

\* s split at the occurrences of sep at a and, when b # 0, at b.
SplitAt(s, sep, a, b) ==
  IF a = 0 THEN <<s>>
  ELSE IF b = 0 THEN <<SubSeq(s, 1, a - 1), From(s, a + Len(sep))>>
  ELSE <<SubSeq(s, 1, a - 1), SubSeq(s, a + Len(sep), b - 1),
         From(s, b + Len(sep))>>

\* The occurrence of sep after the one at a, 0 when a = 0 or there is none.
FindAfter(s, sep, a) == IF a = 0 THEN 0 ELSE Find(s, sep, a + Len(sep))

\* str.split(sep, 1): one split at the first occurrence of sep.
Split1(s, sep) == SplitAt(s, sep, Find(s, sep, 1), 0)

\* str.split(sep, 2): at most two splits, at the leftmost occurrences.
SplitTwice(s, sep, a) == SplitAt(s, sep, a, FindAfter(s, sep, a))
Split2(s, sep) == SplitTwice(s, sep, Find(s, sep, 1))

UpperCase == <<"A", "B", "C", "D", "E", "F", "G", "H", "I", "J", "K", "L", "M",
               "N", "O", "P", "Q", "R", "S", "T", "U", "V", "W", "X", "Y", "Z">>
LowerCase == <<"a", "b", "c", "d", "e", "f", "g", "h", "i", "j", "k", "l", "m",
               "n", "o", "p", "q", "r", "s", "t", "u", "v", "w", "x", "y", "z">>

\* str.lower()
Lower(s) ==
  [i \in 1..Len(s) |->
     IF \E k \in 1..Len(UpperCase) : UpperCase[k] = s[i]
     THEN LowerCase[CHOOSE k \in 1..Len(UpperCase) : UpperCase[k] = s[i]]
     ELSE s[i]]

\* str.replace(c, r) for a single character c.
RECURSIVE Replace(_, _, _)
Replace(s, c, r) ==
  IF s = <<>> THEN <<>>
  ELSE Replace(SubSeq(s, 1, Len(s) - 1), c, r)
       \o (IF s[Len(s)] = c THEN r ELSE <<s[Len(s)]>>)

\* sep.join(parts)
RECURSIVE Join(_, _)
Join(parts, sep) ==
  IF parts = <<>> THEN <<>>
  ELSE IF Len(parts) = 1 THEN parts[1]
  ELSE parts[1] \o sep \o Join(Tail(parts), sep)

---------------------------------------------------------------------------
(* The string constants of convert_to_desktop_format.py.                   *)

Marker == <<"-", "-", "-">>
Colon == <<":">>
H1Prefix == <<"#", " ">>
Hash == <<"#">>
Fence == <<BT, BT, BT>>
YouAre == <<"Y", "o", "u", " ", "a", "r", "e">>
Ellipsis == <<".", ".", ".">>
UntitledSkill ==
  <<"U", "n", "t", "i", "t", "l", "e", "d", " ", "S", "k", "i", "l", "l">>
ActivationPhrase ==
  <<"T", "h", "i", "s", " ", "s", "k", "i", "l", "l", " ", "a", "c", "t", "i",
    "v", "a", "t", "e", "s", " ", "w", "h", "e", "n">>
HelpsWith == <<"H", "e", "l", "p", "s", " ", "w", "i", "t", "h", ":", " ">>
CommaSpace == <<",", " ">>
ASkillFor == <<"A", " ", "s", "k", "i", "l", "l", " ", "f", "o", "r", " ">>
TasksAndWorkflows ==
  <<" ", "t", "a", "s", "k", "s", " ", "a", "n", "d", " ", "w", "o", "r", "k",
    "f", "l", "o", "w", "s", ".">>
KeyName == <<"n", "a", "m", "e">>
KeyDescription == <<"d", "e", "s", "c", "r", "i", "p", "t", "i", "o", "n">>

ALLOWED_KEYS ==
  { KeyName, KeyDescription,
    <<"l", "i", "c", "e", "n", "s", "e">>,
    <<"a", "l", "l", "o", "w", "e", "d", "-", "t", "o", "o", "l", "s">>,
    <<"m", "e", "t", "a", "d", "a", "t", "a">> }

\* The numbers of the code.
ScanWindow == 10
MinDescLen == 20
MaxDescLen == 200
EllipsisCut == 197
MaxTitleLen == 64
MaxBullets == 3

---------------------------------------------------------------------------
(* extract_title_and_description(content)                                  *)

\* Python's `a or b` for str or None.
FirstTruthy(a, b) == IF Falsy(a) THEN b ELSE a

\* The test of line 35 and lines 37/40 on a stripped line: the line is
\* taken as the description.
Accepted(next_line) ==
  /\ next_line # <<>>
  /\ ~StartsWith(next_line, Hash)
  /\ ~StartsWith(next_line, Fence)
  /\ (StartsWith(next_line, YouAre) \/ Len(next_line) > MinDescLen)

\* next_line[:197] + "..." if len(next_line) > 200 else next_line
Shorten(next_line) ==
  IF Len(next_line) > MaxDescLen
  THEN SubSeq(next_line, 1, EllipsisCut) \o Ellipsis
  ELSE next_line

\* The index of the line at which the loop of line 28 enters its body: the
\* first line that starts with "# " (title is still None there); 0 when the
\* loop ends without entering it.
TitleLine(lines) ==
  MinOrZero({i \in 1..Len(lines) : StartsWith(lines[i], H1Prefix)})

\* A scan that would also take the tenth line after the title line.
ScanRangeOfTen(lines, i) ==
  (i + 1)..(IF i + ScanWindow < Len(lines)
            THEN i + ScanWindow ELSE Len(lines))

\* range(i + 1, min(i + 10, len(lines))) of line 33, as 1-based indices.
ScanRange(lines, i) ==
  (i + 1)..(IF i + ScanWindow - 1 < Len(lines)
            THEN i + ScanWindow - 1 ELSE Len(lines))

\* Lines 38/41 for the accepted line j, None when the scan accepted none.
Description(lines, j) ==
  IF j = 0 THEN None ELSE Shorten(Strip(lines[j]))

\* The inner loop of lines 33-42 from title line i.
ScanDescription(lines, i) ==
  Description(lines,
    MinOrZero({j \in ScanRange(lines, i) : Accepted(Strip(lines[j]))}))

\* Lines 28-43: title and description as the loop leaves them.
ScanFrom(lines, i) ==
  IF i = 0 THEN [title |-> None, description |-> None]
  ELSE [title |-> Strip(From(lines[i], Len(H1Prefix) + 1)),
        description |-> ScanDescription(lines, i)]

ScanLines(lines) == ScanFrom(lines, TitleLine(lines))

\* re.search(r'This skill activates when.*?:(.*?)(?=##|\Z)', content,
\* re.DOTALL).group(1), or None without a match: the text after the first
\* colon (at c) that follows the first occurrence of the phrase (at p), up
\* to the first "##" after it (at h) or to the end.
MatchedSpan(content, c, h) ==
  IF h = 0 THEN From(content, c + 1) ELSE SubSeq(content, c + 1, h - 1)

MatchFromColon(content, c) ==
  IF c = 0 THEN None
  ELSE MatchedSpan(content, c, Find(content, <<"#", "#">>, c + 1))

MatchFromPhrase(content, p) ==
  MatchFromColon(content,
    IF p = 0 THEN 0 ELSE Find(content, Colon, p + Len(ActivationPhrase)))

ActivationMatch(content) ==
  MatchFromPhrase(content, Find(content, ActivationPhrase, 1))

\* The index of the last character of the line of text that holds index q.
LineEnd(text, q) ==
  LET nls == {k \in q..Len(text) : text[k] = NL}
  IN  IF nls = {} THEN Len(text) ELSE MinOf(nls) - 1

\* re.findall(r'[-*]\s+(.+)', text) from index `from` on, for a text that
\* does not end in whitespace: a match starts at a '-' or '*' followed by
\* whitespace (at p), skips the whitespace (to q) and captures the rest of
\* that line (to e); the search goes on after the match.
RECURSIVE FindBullets(_, _)
CaptureTo(text, q, e) ==
  <<SubSeq(text, q, e)>> \o FindBullets(text, e + 1)

CaptureFrom(text, q) == CaptureTo(text, q, LineEnd(text, q))

MatchBulletAt(text, p) ==
  IF p = 0 THEN <<>>
  ELSE CaptureFrom(text, MinOf({k \in (p + 1)..Len(text) : ~IsWs(text[k])}))

FindBullets(text, from) ==
  MatchBulletAt(text,
    MinOrZero({p \in from..(Len(text) - 1) :
                 text[p] \in {"-", "*"} /\ IsWs(text[p + 1])}))

\* Line 58 for the bullets found, None when there is none (line 57).
HelpsWithBullets(bullets) ==
  IF bullets = <<>> THEN None
  ELSE Take(HelpsWith \o Join(Take(bullets, MaxBullets), CommaSpace),
            MaxDescLen)

\* Lines 54-56 for the group of the match.
BulletsOfMatch(m) == IF m = None THEN <<>> ELSE FindBullets(Strip(m), 1)

\* Lines 51-58: the description from the activation section, or None.
ActivationDescription(content) ==
  HelpsWithBullets(BulletsOfMatch(ActivationMatch(content)))

\* Lines 50-61: the description generated when the scan left none.
GeneratedDescription(content, title) ==
  FirstTruthy(ActivationDescription(content),
              ASkillFor \o Lower(title) \o TasksAndWorkflows)

\* Lines 49-63 for the final title.
WithTitle(content, title, description) ==
  [title |-> title,
   description |-> IF Falsy(description)
                   THEN GeneratedDescription(content, title)
                   ELSE description]

\* An extraction that would leave out the placeholder title of line 47.
AfterScanNoPlaceholder(content, scan) ==
  WithTitle(content, scan.title, scan.description)

\* Lines 45-63 for what the loop left.
AfterScan(content, scan) ==
  WithTitle(content, FirstTruthy(scan.title, UntitledSkill), scan.description)

extract_title_and_description(content) ==
  AfterScan(content, ScanLines(SplitLines(Strip(content))))

---------------------------------------------------------------------------
(* clean_frontmatter(content)                                              *)

\* A return of lines 69/72 that would trim the text it hands back.
NoFrontmatterTrimmed(content) ==
  [body |-> Strip(content), name |-> None, description |-> None]

NoFrontmatter(content) ==
  [body |-> content, name |-> None, description |-> None]

\* The value of line k of the block (lines 85/87), None when k = 0.
ValueOfLine(frontmatter_lines, k) ==
  IF k = 0 THEN None
  ELSE StripChars(Strip(Split1(frontmatter_lines[k], Colon)[2]), {DQ, SQ})

\* The key of a line that holds a colon (line 81).
KeyOfLine(line) == Strip(Split1(line, Colon)[1])

\* The value of the last line of the block whose key is `key`, as lines
\* 79-87 leave it: None when no line has the key.
FieldValue(frontmatter_lines, key) ==
  ValueOfLine(frontmatter_lines,
    MaxOrZero({k \in 1..Len(frontmatter_lines) :
                 /\ Find(frontmatter_lines[k], Colon, 1) # 0
                 /\ KeyOfLine(frontmatter_lines[k]) = key
                 /\ key \in ALLOWED_KEYS}))

\* Lines 74-90.
CleanBlock(frontmatter_lines, body) ==
  [body |-> body,
   name |-> FieldValue(frontmatter_lines, KeyName),
   description |-> FieldValue(frontmatter_lines, KeyDescription)]

\* Lines 71-90.
CleanParts(content, parts) ==
  IF Len(parts) < 3 THEN NoFrontmatter(content)
  ELSE CleanBlock(SplitLines(Strip(parts[2])), parts[3])

clean_frontmatter(content) ==
  IF ~StartsWith(Strip(content), Marker) THEN NoFrontmatter(content)
  ELSE CleanParts(content, Split2(content, Marker))

---------------------------------------------------------------------------
(* convert_skill: the text it writes to Skill.md (lines 100-130).          *)

\* Lines 124-130: frontmatter + body.lstrip()
NewContent(title, description, body) ==
  Marker \o <<NL>> \o KeyName \o <<":", " ", DQ>> \o title \o <<DQ, NL>>
  \o KeyDescription \o <<":", " ", DQ>> \o description \o <<DQ, NL>>
  \o Marker \o <<NL, NL>> \o LStrip(body)

\* Lines 116-130 for the title and the description chosen: title and
\* description as line 124 reads them, and the text written.
Emit(title, description, body) ==
  [title |-> title,
   description |-> description,
   new_content |-> NewContent(title, description, body)]

\* A rebuild that would leave out the truncation of lines 117-118.
RebuildUntruncated(cleaned, synth) ==
  Emit(FirstTruthy(cleaned.name, synth.title),
       Replace(FirstTruthy(cleaned.description, synth.description),
               DQ, <<BS, DQ>>),
       cleaned.body)

\* Lines 110-130.
Rebuild(cleaned, synth) ==
  Emit(Take(FirstTruthy(cleaned.name, synth.title), MaxTitleLen),
       Replace(Take(FirstTruthy(cleaned.description, synth.description),
                    MaxDescLen),
               DQ, <<BS, DQ>>),
       cleaned.body)

\* Lines 107-130.
ConvertCleaned(cleaned) ==
  Rebuild(cleaned, extract_title_and_description(cleaned.body))

\* Lines 100-130: the locals of convert_skill when it writes Skill.md.
convert_text(content) == ConvertCleaned(clean_frontmatter(content))

new_content(content) == convert_text(content).new_content

---------------------------------------------------------------------------
(* The documents the text functions are applied to.                        *)

\* Bounds of the input families.
MaxFmChars == 7
MaxMdChars == 6
MaxGap == 9
MaxFmLines == 2
MaxItems == 4

Rep(c, n) == [i \in 1..n |-> c]
Cat(parts) == Join(parts, <<>>)
Repeat(s, k) == Cat([i \in 1..k |-> s])
SeqsUpTo(S, n) == UNION {[1..k -> S] : k \in 0..n}

\* Every short text over two small alphabets: the characters of a
\* frontmatter delimiter (at most MaxFmChars of them) and those of a
\* heading (at most MaxMdChars).
FmAlphabet == {"-", NL, "a"}
MdAlphabet == {"#", NL, SP, "a"}
SmallDocs ==
  SeqsUpTo(FmAlphabet, MaxFmChars) \cup SeqsUpTo(MdAlphabet, MaxMdChars)

\* A first heading, a gap of equal filler lines, a candidate description
\* line, and possibly one more line.
TitleMySkill ==
  <<"#", " ", "M", "y", " ", "S", "k", "i", "l", "l">>
TitleBlank ==
  <<"#", " ", " ">>
FillerShort ==
  <<"a", "b">>
FillerHeading ==
  <<"#", "#", " ", "h">>
FillerBlank ==
  <<" ", " ">>
SecondLine ==
  <<NL, "S", "e", "c", "o", "n", "d", " ", "l", "i", "n", "e", " ", "t",
    "h", "a", "t", " ", "i", "s", " ", "l", "o", "n", "g", " ", "e", "n",
    "o", "u", "g", "h", ".">>
CandYouAre ==
  <<"Y", "o", "u", " ", "a", "r", "e">>
CandYouAreSpaced ==
  <<" ", " ", "Y", "o", "u", " ", "a", "r", "e", " ", "x", " ", " ">>
CandHashtag ==
  <<"#", "h", "a", "s", "h", "t", "a", "g", " ", "l", "i", "n", "e", " ",
    "t", "h", "a", "t", " ", "i", "s", " ", "l", "o", "n", "g", " ", "e",
    "n", "o", "u", "g", "h">>

WindowTitles == {TitleMySkill, TitleBlank}
Fillers == {<<>>, FillerShort, FillerHeading, FillerBlank, Fence}
Candidates ==
  { CandYouAre, CandYouAreSpaced, CandHashtag,
    Rep("b", 20), Rep("b", 21),
    <<SP, SP>> \o Rep("b", 19) \o <<SP, SP>>,
    <<SP>> \o Rep("b", 21),
    Rep("c", 200), Rep("c", 201),
    Rep("c", 99) \o <<DQ>> \o Rep("c", 100),
    YouAre \o Rep("d", 194) }
WindowDocs ==
  { title \o <<NL>> \o Repeat(filler \o <<NL>>, gap) \o cand \o tail :
      title \in WindowTitles, filler \in Fillers, gap \in 0..MaxGap,
      cand \in Candidates, tail \in {<<>>, SecondLine} }

\* An opening delimiter line, at most MaxFmLines lines, a closing delimiter
\* line (or none) and a body.
FmNameFoo ==
  <<"n", "a", "m", "e", ":", " ", DQ, "F", "o", "o", DQ>>
FmNameBar ==
  <<"n", "a", "m", "e", ":", " ", SQ, "B", "a", "r", SQ>>
FmNameEmpty ==
  <<"n", "a", "m", "e", ":", " ", DQ, DQ>>
FmNamePrefix ==
  <<"n", "a", "m", "e", ":", " ">>
FmDescShort ==
  <<"d", "e", "s", "c", "r", "i", "p", "t", "i", "o", "n", ":", " ", DQ,
    "A", " ", "s", "h", "o", "r", "t", " ", "d", "e", "s", "c", "r", "i",
    "p", "t", "i", "o", "n", ".", DQ>>
FmDescQuoted ==
  <<"d", "e", "s", "c", "r", "i", "p", "t", "i", "o", "n", ":", " ", "s",
    "a", "y", " ", DQ, "h", "i", DQ, " ", "n", "o", "w">>
FmDescDashes ==
  <<"d", "e", "s", "c", "r", "i", "p", "t", "i", "o", "n", ":", " ", "a",
    "-", "-", "-", "b">>
FmDescPrefix ==
  <<"d", "e", "s", "c", "r", "i", "p", "t", "i", "o", "n", ":", " ">>
FmVersion ==
  <<"v", "e", "r", "s", "i", "o", "n", ":", " ", "1", ".", "0", ".", "0">>
FmPlain ==
  <<"j", "u", "s", "t", " ", "t", "e", "x", "t">>
BodyTitled ==
  <<NL, NL, "#", " ", "T", NL, "S", "o", "m", "e", " ", "b", "o", "d", "y",
    " ", "t", "e", "x", "t", " ", "o", "v", "e", "r", " ", "t", "w", "e",
    "n", "t", "y", " ", "c", "h", "a", "r", "s", ".">>
BodyIndented ==
  <<NL, " ", NL, "B", "o", "d", "y">>

FmLinePool ==
  { FmNameFoo, FmNameBar, FmNameEmpty,
    FmNamePrefix \o Rep("n", 65),
    FmDescShort, FmDescQuoted, FmDescDashes,
    FmDescPrefix \o Rep("d", 100) \o <<DQ>> \o Rep("d", 100),
    FmVersion, FmPlain }
FmBodies == {<<>>, BodyTitled, BodyIndented}
FmDocs ==
  { lead \o Marker \o <<NL>> \o Join(fm, <<NL>>) \o <<NL>> \o closing \o body :
      lead \in {<<>>, <<NL>>},
      fm \in SeqsUpTo(FmLinePool, MaxFmLines) \ {<<>>},
      closing \in {Marker, <<>>}, body \in FmBodies }

\* The activation phrase, out of reach of the line scan, followed by at
\* most MaxItems pieces of text.
ActPrefixTitle ==
  <<"#", " ", "T", NL>>
ActMidNoColon ==
  <<" ", "y", "o", "u", " ", "n", "e", "e", "d", " ", "h", "e", "l", "p">>
ActMidLate ==
  <<" ", "t", "h", "e", " ", "u", "s", "e", "r", " ", "a", "s", "k", "s",
    ":", NL>>
ItemDash ==
  <<NL, "-", " ", "a", "l", "p", "h", "a">>
ItemStarPrefix ==
  <<NL, "*", " ">>
ItemInline ==
  <<NL, "t", "e", "x", "t", " ", "-", " ", "m", "o", "r", "e">>
ItemHeading ==
  <<NL, "#", "#", " ", "N", "e", "x", "t">>
ItemNoSpace ==
  <<NL, "-", "g", "a", "m", "m", "a">>

ActPrefixes == {<<>>, ActPrefixTitle \o Repeat(<<"x", NL>>, 9)}
ActMids == {ActMidNoColon, ActMidLate}
ItemPool ==
  {ItemDash, ItemStarPrefix \o Rep("b", 120), ItemInline, ItemHeading,
   ItemNoSpace}
ActivationDocs ==
  { prefix \o ActivationPhrase \o mid \o Cat(items) :
      prefix \in ActPrefixes, mid \in ActMids,
      items \in SeqsUpTo(ItemPool, MaxItems) }

Docs == SmallDocs \cup WindowDocs \cup FmDocs \cup ActivationDocs

---------------------------------------------------------------------------
(* The file system of the two batch programs.                              *)

\* Bound: the number of SKILL.md files under the source root.
MaxUnits == 2

\* The directories, below the source root, that hold a SKILL.md.
PathPool == {<<"foo">>, <<"a", "foo">>, <<"bar">>}

\* skill_path.parent.name
skill_name(path) == path[Len(path)]

\* The directory names of the output tree, in sorted() order.
NameOrder == <<"bar", "foo", "old">>
Names == {NameOrder[k] : k \in 1..Len(NameOrder)}

\* A resources/ directory: absent, or the set of its <<file, data>> pairs.
NoResources == [present |-> FALSE, files |-> {}]
ResourcePool == {NoResources, [present |-> TRUE, files |-> {<<"r1", "x">>}]}

BatchDocs ==
  { TitleMySkill \o SecondLine,
    Marker \o <<NL>> \o FmNameFoo \o <<NL>> \o Marker \o BodyTitled }

Units == [path : PathPool, content : BatchDocs, resources : ResourcePool]

\* list(SOURCE_DIR.rglob("SKILL.md")): files of distinct paths, any order.
SkillFileLists ==
  { l \in SeqsUpTo(Units, MaxUnits) :
      \A a, b \in 1..Len(l) : a # b => l[a].path # l[b].path }

\* A directory of the output tree: absent, or its Skill.md (None when the
\* file is absent) and its resources/.
NoDir == [exists |-> FALSE, skill_md |-> None, resources |-> NoResources]
EmptyTree == [n \in Names |-> NoDir]
StaleTree ==
  [EmptyTree EXCEPT !["old"] =
     [exists |-> TRUE, skill_md |-> TitleMySkill, resources |-> NoResources]]

\* The trees the ZIP creator is run on.
DirPool ==
  { NoDir,
    [exists |-> TRUE, skill_md |-> TitleMySkill, resources |-> NoResources],
    [exists |-> TRUE, skill_md |-> TitleMySkill,
     resources |-> [present |-> TRUE, files |-> {<<"r1", "x">>}]] }
ZipTrees == [Names -> DirPool]

\* A ZIP file of the archive directory: absent, or its archive names.
NoZip == [exists |-> FALSE, entries |-> {}]
NoZips == [n \in Names |-> NoZip]
StaleZips == [NoZips EXCEPT !["old"] = [exists |-> TRUE, entries |-> {}]]

\* shutil.copytree(src, dst, dirs_exist_ok=True) of the files `copied`.
CopyTree(copied, dst) ==
  [present |-> TRUE,
   files |-> {f \in dst.files : \A g \in copied : g[1] # f[1]} \cup copied]

\* The archive names create_skill_zip writes for directory n.
ArcNames(n, dir) ==
  (IF dir.skill_md = None THEN {} ELSE {<<n, "Skill.md">>})
  \cup {<<n, "resources", f[1]>> : f \in dir.resources.files}

---------------------------------------------------------------------------
(* State.                                                                  *)

VARIABLES
  content,      \* the document text a text function is applied to
  op,           \* the function applied to it, "none" before
  ret,          \* what the function returned
  pc,           \* the position of the running main()
  skill_files,  \* converter: the SKILL.md files found
  out_tree,     \* the output tree of the converter, input of the ZIP creator
  converted,    \* converter: names of the converted skills
  errors,       \* converter: <<skill_path, error>> of the failed ones
  skill_dirs,   \* ZIP creator: the sorted skill directories
  zips,         \* the archive directory
  created,      \* ZIP creator: names of the ZIP files created
  failed,       \* ZIP creator: <<name, error>> of the failed ones
  i             \* how many units the running loop has gone through

textVars == <<content, op, ret>>
batchVars ==
  <<pc, skill_files, out_tree, converted, errors, skill_dirs, zips, created,
    failed, i>>
vars == <<textVars, batchVars>>

---------------------------------------------------------------------------
(* The text functions applied to a document.                               *)

Init ==
  /\ content \in Docs
  /\ op = "none"
  /\ ret = None
  /\ pc = "idle"
  /\ skill_files = <<>>
  /\ out_tree = EmptyTree
  /\ converted = <<>>
  /\ errors = <<>>
  /\ skill_dirs = <<>>
  /\ zips = NoZips
  /\ created = <<>>
  /\ failed = <<>>
  /\ i = 0

CallCleanFrontmatter ==
  /\ op = "none"
  /\ op' = "clean_frontmatter"
  /\ ret' = clean_frontmatter(content)
  /\ UNCHANGED <<content, batchVars>>

CallExtract ==
  /\ op = "none"
  /\ op' = "extract_title_and_description"
  /\ ret' = extract_title_and_description(content)
  /\ UNCHANGED <<content, batchVars>>

CallConvert ==
  /\ op = "none"
  /\ op' = "convert_skill"
  /\ ret' = convert_text(content)
  /\ UNCHANGED <<content, batchVars>>

Next == CallCleanFrontmatter \/ CallExtract \/ CallConvert

Spec == Init /\ [][Next]_vars

---------------------------------------------------------------------------
(* main() of convert_to_desktop_format.py                                  *)

BatchInit ==
  /\ content = <<>>
  /\ op = "none"
  /\ ret = None
  /\ \/ /\ pc = "convert_start"
        /\ skill_files \in SkillFileLists
        /\ out_tree \in {EmptyTree, StaleTree}
        /\ zips = NoZips
     \/ /\ pc = "zip_start"
        /\ skill_files = <<>>
        /\ out_tree \in ZipTrees
        /\ zips \in {NoZips, StaleZips}
  /\ converted = <<>>
  /\ errors = <<>>
  /\ skill_dirs = <<>>
  /\ created = <<>>
  /\ failed = <<>>
  /\ i = 0

\* Lines 150-159: the output directory is removed and made anew.
ConvertMainStart ==
  /\ pc = "convert_start"
  /\ pc' = "convert_loop"
  /\ out_tree' = EmptyTree
  /\ converted' = <<>>
  /\ errors' = <<>>
  /\ i' = 0
  /\ UNCHANGED <<textVars, skill_files, skill_dirs, zips, created, failed>>

\* An exception of lines 150-156 (rmtree, mkdir, rglob) is not caught.
ConvertMainStartRaises ==
  /\ pc = "convert_start"
  /\ pc' = "crashed"
  /\ UNCHANGED <<textVars, skill_files, out_tree, converted, errors,
                 skill_dirs, zips, created, failed, i>>

\* The output directory of a unit after convert_skill returned.
Converted(unit, dir) ==
  [exists |-> TRUE,
   skill_md |-> new_content(unit.content),
   resources |-> IF unit.resources.present
                 THEN CopyTree(unit.resources.files, dir.resources)
                 ELSE dir.resources]

\* The output directory of a unit after convert_skill raised at `stage`:
\* reading the source or making the directory changes nothing; a failed
\* write leaves the directory, with Skill.md as it was or cut to nothing; a
\* failed copy leaves the written Skill.md and the files `copied` so far.
Interrupted(unit, dir, stage, copied) ==
  CASE stage \in {"read", "mkdir"} -> dir
    [] stage = "open" -> [dir EXCEPT !.exists = TRUE]
    [] stage = "write" -> [dir EXCEPT !.exists = TRUE, !.skill_md = <<>>]
    [] stage = "copytree" ->
         [exists |-> TRUE,
          skill_md |-> new_content(unit.content),
          resources |-> CopyTree(copied, dir.resources)]

\* Lines 162-165: convert_skill returns.
ConvertReturns ==
  /\ pc = "convert_loop"
  /\ i < Len(skill_files)
  /\ LET unit == skill_files[i + 1]
         name == skill_name(unit.path)
     IN  /\ out_tree' =
              [out_tree EXCEPT ![name] = Converted(unit, out_tree[name])]
         /\ converted' = Append(converted, name)
  /\ i' = i + 1
  /\ UNCHANGED <<textVars, pc, skill_files, errors, skill_dirs, zips,
                 created, failed>>

\* A loop without the except clause of line 166: the exception of
\* convert_skill ends main().
ConvertRaisesUncaught ==
  /\ pc = "convert_loop"
  /\ i < Len(skill_files)
  /\ pc' = "crashed"
  /\ UNCHANGED <<textVars, skill_files, out_tree, converted, errors,
                 skill_dirs, zips, created, failed, i>>

\* Lines 166-168: convert_skill raises and the exception is caught.
ConvertRaises ==
  /\ pc = "convert_loop"
  /\ i < Len(skill_files)
  /\ LET unit == skill_files[i + 1]
         name == skill_name(unit.path)
     IN  \/ \E stage \in {"read", "mkdir", "open", "write"} :
              /\ out_tree' =
                   [out_tree EXCEPT
                      ![name] = Interrupted(unit, out_tree[name], stage, {})]
              /\ errors' = Append(errors, <<unit.path, stage>>)
         \/ \E copied \in SUBSET unit.resources.files :
              /\ unit.resources.present
              /\ copied # unit.resources.files
              /\ out_tree' =
                   [out_tree EXCEPT
                      ![name] = Interrupted(unit, out_tree[name], "copytree",
                                            copied)]
              /\ errors' = Append(errors, <<unit.path, "copytree">>)
  /\ i' = i + 1
  /\ UNCHANGED <<textVars, pc, skill_files, converted, skill_dirs, zips,
                 created, failed>>

\* Lines 170-173: the summary.
ConvertSummary ==
  /\ pc = "convert_loop"
  /\ i = Len(skill_files)
  /\ pc' = "convert_done"
  /\ UNCHANGED <<textVars, skill_files, out_tree, converted, errors,
                 skill_dirs, zips, created, failed, i>>

---------------------------------------------------------------------------
(* main() of create_skill_zips.py                                          *)

\* Lines 37-50: old ZIP files are removed, the skill directories listed.
ZipMainStart ==
  /\ pc = "zip_start"
  /\ pc' = "zip_loop"
  /\ zips' = NoZips
  /\ skill_dirs' = SelectSeq(NameOrder, LAMBDA n : out_tree[n].exists)
  /\ created' = <<>>
  /\ failed' = <<>>
  /\ i' = 0
  /\ UNCHANGED <<textVars, skill_files, out_tree, converted, errors>>

\* An exception of lines 37-45 (mkdir, unlink, iterdir) is not caught.
ZipMainStartRaises ==
  /\ pc = "zip_start"
  /\ pc' = "crashed"
  /\ UNCHANGED <<textVars, skill_files, out_tree, converted, errors,
                 skill_dirs, zips, created, failed, i>>

\* Lines 53-56: create_skill_zip returns.
ZipReturns ==
  /\ pc = "zip_loop"
  /\ i < Len(skill_dirs)
  /\ LET n == skill_dirs[i + 1]
     IN  /\ zips' = [zips EXCEPT
                       ![n] = [exists |-> TRUE,
                               entries |-> ArcNames(n, out_tree[n])]]
         /\ created' = Append(created, <<n, ".zip">>)
  /\ i' = i + 1
  /\ UNCHANGED <<textVars, pc, skill_files, out_tree, converted, errors,
                 skill_dirs, failed>>

\* Lines 57-59: create_skill_zip raises and the exception is caught; the
\* ZIP file is not there (it could not be opened) or holds the entries
\* written so far.
ZipRaises ==
  /\ pc = "zip_loop"
  /\ i < Len(skill_dirs)
  /\ LET n == skill_dirs[i + 1]
     IN  /\ \/ /\ zips' = zips
               /\ failed' = Append(failed, <<n, "open">>)
            \/ /\ \E written \in SUBSET ArcNames(n, out_tree[n]) :
                    /\ written # ArcNames(n, out_tree[n])
                    /\ zips' = [zips EXCEPT
                                  ![n] = [exists |-> TRUE, entries |-> written]]
               /\ failed' = Append(failed, <<n, "write">>)
  /\ i' = i + 1
  /\ UNCHANGED <<textVars, pc, skill_files, out_tree, converted, errors,
                 skill_dirs, created>>

\* Lines 61-71: the summary.
ZipSummary ==
  /\ pc = "zip_loop"
  /\ i = Len(skill_dirs)
  /\ pc' = "zip_done"
  /\ UNCHANGED <<textVars, skill_files, out_tree, converted, errors,
                 skill_dirs, zips, created, failed, i>>

BatchNext ==
  \/ ConvertMainStart
  \/ ConvertMainStartRaises
  \/ ConvertRaises
  \/ ConvertReturns
  \/ ConvertSummary
  \/ ZipMainStart
  \/ ZipMainStartRaises
  \/ ZipReturns
  \/ ZipRaises
  \/ ZipSummary

\* One thread runs main() to its end: a step that can be taken is taken.
BatchSpec == BatchInit /\ [][BatchNext]_vars /\ WF_vars(BatchNext)

---------------------------------------------------------------------------
(* Properties of the text functions (under Spec).                          *)

Extracted == op = "extract_title_and_description"
Cleaned == op = "clean_frontmatter"
Written == op = "convert_skill"

FinalFallbackOfUntitled ==
  ASkillFor
  \o <<"u", "n", "t", "i", "t", "l", "e", "d", " ", "s", "k", "i", "l", "l">>
  \o TasksAndWorkflows

\* C2: extract_title_and_description returns, for every text, a title and a
\* description that are non-empty strings; for the empty document they are
\* "Untitled Skill" and "A skill for untitled skill tasks and workflows.".
C2_ExtractAlwaysUsable ==
  Extracted =>
    /\ ret.title \notin {None, <<>>}
    /\ ret.description \notin {None, <<>>}
    /\ content = <<>> =>
         /\ ret.title = UntitledSkill
         /\ ret.description = FinalFallbackOfUntitled

C2_Witness ==
  /\ Extracted
  /\ content = <<>>
  /\ ret.title = UntitledSkill

\* Two occurrences of the delimiter marker that do not overlap.
HasSecondMarker(text) ==
  \E a \in 1..Len(text) :
    /\ OccursAt(text, Marker, a)
    /\ \E b \in (a + Len(Marker))..Len(text) : OccursAt(text, Marker, b)

\* C4: when the text, leading whitespace trimmed, does not begin with the
\* marker ---, or begins with it and holds no second marker, then
\* clean_frontmatter returns the text itself as body, and neither a name
\* nor a description.
C4_NoFrontmatterUnchanged ==
  (Cleaned /\ (~StartsWith(LStrip(content), Marker) \/ ~HasSecondMarker(content)))
    => ret = [body |-> content, name |-> None, description |-> None]

C4_Witness ==
  /\ Cleaned
  /\ StartsWith(content, Marker)
  /\ Len(content) > Len(Marker)
  /\ ~HasSecondMarker(content)
  /\ ret.body = content

\* The lines the scan goes through: those of the trimmed text.
LinesOf(text) == SplitLines(Strip(text))

\* The text of a heading line after its marker, trimmed.
HeadingText(line) == Strip(From(line, 3))

\* The lines that start with "# " followed by non-empty text.
TitledLines(lines) ==
  {k \in 1..Len(lines) :
     StartsWith(lines[k], H1Prefix) /\ HeadingText(lines[k]) # <<>>}

TitleOfFirst(lines, titled) ==
  IF titled = {} THEN UntitledSkill ELSE HeadingText(lines[MinOf(titled)])

\* C8: the title is the text of the first line that starts with "# "
\* followed by non-empty text, and "Untitled Skill" when there is no such
\* line.
C8_TitleOfFirstHeading ==
  Extracted =>
    ret.title = TitleOfFirst(LinesOf(content), TitledLines(LinesOf(content)))

\* The first line that starts with "# ": the line the scan starts from.
FirstHeading(lines) ==
  MinOrZero({k \in 1..Len(lines) : StartsWith(lines[k], H1Prefix)})

\* The at most 9 lines that follow line t.
Following9(lines, t) == {j \in 1..Len(lines) : t < j /\ j <= t + 9}

\* A line that qualifies as the description.
Qualifies(line) ==
  /\ line # <<>>
  /\ ~StartsWith(line, <<"#">>)
  /\ ~StartsWith(line, <<BT, BT, BT>>)
  /\ (StartsWith(line, YouAre) \/ Len(line) > 20)

\* A line as it is returned: whole up to 200 characters, else its first 197
\* characters and "...".
Returned(line) ==
  IF Len(line) <= 200 THEN line
  ELSE SubSeq(line, 1, 197) \o <<".", ".", ".">>

FromFallback(description) ==
  StartsWith(description, HelpsWith) \/ StartsWith(description, ASkillFor)

\* The description for the title line t and the qualifying lines q.
ScanResultIs(description, picked, q) ==
  IF q = {} THEN FromFallback(description)
  ELSE description = Returned(picked[MinOf(q)]) /\ Len(description) <= 200

\* The lines, each with its surrounding whitespace trimmed.
Trimmed(lines) == [k \in 1..Len(lines) |-> Strip(lines[k])]

QualifyingAfter(lines, t) == {j \in Following9(lines, t) : Qualifies(lines[j])}

ScanClaim(description, lines, t) ==
  t # 0 => ScanResultIs(description, lines, QualifyingAfter(lines, t))

\* The title line when the first line that starts with "# " has a text.
TitledFirstHeading(lines, t) ==
  IF t # 0 /\ HeadingText(lines[t]) # <<>> THEN t ELSE 0

NoneQualifies(lines, t) == t = 0 \/ QualifyingAfter(lines, t) = {}
ScanYieldsNone(text) ==
  NoneQualifies(Trimmed(LinesOf(text)), FirstHeading(LinesOf(text)))

\* The bullet items of a span: of each line that begins with "-" or "*" and
\* whitespace, the text after them.
IsBulletLine(line) ==
  Len(line) >= 3 /\ line[1] \in {"-", "*"} /\ IsWs(line[2])
BulletItems(lines) ==
  Trimmed([k \in 1..Len(lines) |-> From(lines[k], 2)])
BulletLines(lines) ==
  SelectSeq(BulletItems(SelectSeq(lines, IsBulletLine)), LAMBDA b : b # <<>>)
BulletsOfSpan(span) ==
  IF span = None THEN <<>> ELSE BulletLines(Trimmed(SplitLines(span)))

FallbackIs(description, title, bullets) ==
  IF bullets = <<>>
  THEN description = ASkillFor \o Lower(title) \o TasksAndWorkflows
  ELSE description =
         Take(HelpsWith \o Join(Take(bullets, 3), <<",", " ">>), 200)

\* C10: when the scan yields no description, the description is
\* "Helps with: " and the first three bullet items of the activation span,
\* joined with ", " and cut to 200 characters, the bullet items being the
\* lines of the span that begin with "-" or "*"; without the phrase or
\* without such a line it is "A skill for <title lowercased> tasks and
\* workflows.".
C10_FallbackFromBulletLines ==
  (Extracted /\ ScanYieldsNone(content)) =>
    FallbackIs(ret.description, ret.title,
               BulletsOfSpan(ActivationMatch(content)))

\* The frontmatter block of a text by its lines: line 1 is ---, the next
\* line that is --- closes it.
ClosingLine(lines) ==
  MinOrZero({k \in 2..Len(lines) : lines[k] = Marker})
BlockLines(lines, c) == SubSeq(lines, 2, c - 1)
IsKeyValue(line) == Find(line, Colon, 1) > 1 /\ Find(line, Marker, 1) # 1
WellFormedBlock(lines, c) ==
  /\ lines[1] = Marker
  /\ c # 0
  /\ \A k \in 2..(c - 1) : IsKeyValue(lines[k])

\* The text after the closing delimiter of line c.
AfterLine(lines, c) ==
  Cat([k \in 1..(Len(lines) - c) |-> <<NL>> \o lines[c + k]])

KeyIs(line, key) == Strip(Split1(line, Colon)[1]) = key
HasOneNameFoo(block) ==
  /\ \E k \in 1..Len(block) : block[k] = FmNameFoo
  /\ \A k \in 1..Len(block) : KeyIs(block[k], KeyName) => block[k] = FmNameFoo

NameFooClaim(r, lines, c) ==
  (WellFormedBlock(lines, c) /\ HasOneNameFoo(BlockLines(lines, c))) =>
    /\ r.name = <<"F", "o", "o">>
    /\ r.body = AfterLine(lines, c)

\* C3: for a text with a well-formed frontmatter block (an opening line
\* ---, key: value lines, a closing line ---) that holds the line
\* name: "Foo", clean_frontmatter returns the name Foo, whatever the other
\* lines hold, and as body the text after the closing delimiter.
C3_NameOfWellFormedBlock ==
  Cleaned =>
    NameFooClaim(ret, SplitLines(content), ClosingLine(SplitLines(content)))

CountOf(text, c) == Cardinality({k \in 1..Len(text) : text[k] = c})
QuotesEscaped(text) ==
  \A k \in 1..Len(text) : text[k] = DQ => (k > 1 /\ text[k - 1] = BS)

\* C5 as stated: the emitted name has at most 64 characters, the emitted
\* description at most 200, and each double quote of the description
\* follows a backslash.
C5_EmittedWithinLimits ==
  Written =>
    /\ Len(ret.title) <= 64
    /\ Len(ret.description) <= 200
    /\ QuotesEscaped(ret.description)

\* C5, amended: the emitted name has at most 64 characters; the emitted
\* description is an escaped text of at most 200 characters, that is, it
\* has at most 200 characters besides the one backslash added before each
\* of its double quotes, and each double quote follows a backslash.
C5_EmittedWithinLimitsBeforeEscaping ==
  Written =>
    /\ Len(ret.title) <= 64
    /\ Len(ret.description) - CountOf(ret.description, DQ) <= 200
    /\ QuotesEscaped(ret.description)

\* A description of 200 characters, one of them a double quote, is emitted
\* as 201 characters.
C5_Witness ==
  /\ Written
  /\ Len(ret.description) = 201
  /\ CountOf(ret.description, DQ) = 1
  /\ Len(ret.title) = 64

\* The documents of the round trip: a well-formed block of one name line
\* and one description line, in either order, with a name of 1 to 64
\* characters and a description of 1 to 200, none holding the marker, and a
\* body that is empty or starts, on the line after the delimiter, with no
\* whitespace.
NameAndDescription(block) ==
  /\ Len(block) = 2
  /\ \E k \in 1..2 : KeyIs(block[k], KeyName) /\ KeyIs(block[3 - k], KeyDescription)
  /\ \A k \in 1..2 : Find(block[k], Marker, 1) = 0
PlainBody(body) ==
  body = <<>> \/ (Len(body) >= 2 /\ body[1] = NL /\ ~IsWs(body[2]))
RoundTripInput(r, lines, c) ==
  /\ WellFormedBlock(lines, c)
  /\ NameAndDescription(BlockLines(lines, c))
  /\ r.name # None /\ Len(r.name) \in 1..64
  /\ r.description # None /\ Len(r.description) \in 1..200
  /\ PlainBody(r.body)
SameContent(a, b) ==
  /\ a.name = b.name
  /\ a.description = b.description
  /\ LStrip(a.body) = LStrip(b.body)
RoundTripClaim(text, written) ==
  RoundTripInput(clean_frontmatter(text), SplitLines(text),
                 ClosingLine(SplitLines(text)))
    => /\ SameContent(clean_frontmatter(written), clean_frontmatter(text))
       /\ new_content(written) = written

\* C6: for a document with a well-formed block of only a name and a
\* description within the limits and a body without leading whitespace, the
\* text written carries the same name, description and body (leading
\* whitespace of the body aside), and converting it again reproduces it.
C6_RoundTrip ==
  Written => RoundTripClaim(content, ret.new_content)

---------------------------------------------------------------------------
(* Properties of the two batch runs (under BatchSpec).                     *)

Indices(n) == [k \in 1..n |-> k]

\* The units gone through whose path (name) is in the failure list.
FailedUnits == {k \in 1..i : \E e \in 1..Len(errors) : errors[e][1] = skill_files[k].path}
FailedDirs == {k \in 1..i : \E e \in 1..Len(failed) : failed[e][1] = skill_dirs[k]}

\* The entries of the success list for the units gone through that are not
\* in the failure list, in the order of the run.
NamesOfOthers(failedUnits) ==
  [k \in 1..Len(SelectSeq(Indices(i), LAMBDA u : u \notin failedUnits)) |->
     skill_name(skill_files[SelectSeq(Indices(i),
                                      LAMBDA u : u \notin failedUnits)[k]].path)]
ZipsOfOthers(failedDirs) ==
  [k \in 1..Len(SelectSeq(Indices(i), LAMBDA u : u \notin failedDirs)) |->
     <<skill_dirs[SelectSeq(Indices(i), LAMBDA u : u \notin failedDirs)[k]],
       ".zip">>]

ConvertListsPartition ==
  pc \in {"convert_loop", "convert_done"} =>
    /\ i <= Len(skill_files)
    /\ Cardinality(FailedUnits) = Len(errors)
    /\ converted = NamesOfOthers(FailedUnits)
    /\ Len(converted) + Len(errors) = i
    /\ pc = "convert_done" => i = Len(skill_files)

ZipListsPartition ==
  pc \in {"zip_loop", "zip_done"} =>
    /\ i <= Len(skill_dirs)
    /\ Cardinality(FailedDirs) = Len(failed)
    /\ created = ZipsOfOthers(FailedDirs)
    /\ Len(created) + Len(failed) = i
    /\ pc = "zip_done" => i = Len(skill_dirs)

Succeeded ==
  {k \in 1..Len(skill_files) :
     \A e \in 1..Len(errors) : errors[e][1] # skill_files[k].path}

\* The output directory made from one unit alone.
OwnOutput(unit) ==
  [exists |-> TRUE,
   skill_md |-> new_content(unit.content),
   resources |-> unit.resources]

\* C7: after a conversion run the output tree holds one directory per
\* converted unit, whose Skill.md and resources/ come from that unit alone.
C7_OneDirectoryPerUnit ==
  pc = "convert_done" =>
    /\ \A k \in Succeeded :
         out_tree[skill_name(skill_files[k].path)] = OwnOutput(skill_files[k])
    /\ \A k, l \in Succeeded :
         k # l => skill_name(skill_files[k].path) # skill_name(skill_files[l].path)

=============================================================================
